---- MODULE Spec2Model ----
(***************************************************************************)
(* Model of jelly's ID assignment engine (jelly/id_assign.py) and of the   *)
(* initial-conditions writer (jelly/ics.py).                               *)
(*                                                                         *)
(* Python objects are modelled by their identity, a positive integer.      *)
(* Objects 1 and 2 are two distinct lists with equal contents (as the      *)
(* lists of test_id_assign.py); every object above 2 is a Cell, whose      *)
(* class defines no __eq__, so that it is equal to itself only.            *)
(***************************************************************************)
EXTENDS Integers, Sequences, FiniteSets, TLC

(* ------------------------------ bounds -------------------------------- *)

\* number of Cell objects that exist
NumCells == 5
\* largest start of a stand-alone IDRange under test
MaxStart == 1
\* largest end of a stand-alone IDRange under test
MaxEnd == 2
\* longest cell list passed to write_icfile
MaxLen == 2
\* most fields of a raw block passed to make_f77_block
MaxFields == 3
\* largest pad size passed to make_f77_block
MaxPad == 12
\* number of positions a grid can yield
NumPoints == 3
\* most grid points of a grid
MaxGrid == 2
\* longest obstacle list passed to make_mesh
MaxObstacles == 2
\* longest list of extra cell collections passed to make_mesh
MaxExtras == 2
\* most segments (n_phi) of a CircularObstacle
MaxNPhi == 3
\* most layers of a CircularObstacle
MaxLayers == 2

(* ------------------------------ objects ------------------------------- *)

\* Python's None (returned by get_id / get_object when nothing is found)
None == -1

\* the two equal-by-value lists
PlainObjs == {1, 2}

\* the Cell objects
Cells == {2 + i : i \in 1..NumCells}

AllObjs == PlainObjs \cup Cells

\* the category tags a Cell is created with, by object identity
CategoryCycle == <<"normal", "nbody", "solid", "solid_adjacent", "invalid">>

\* cell.category; a plain object has no such attribute
CategoryOf(o) ==
    IF o \in PlainObjs THEN "no_attribute"
    ELSE CategoryCycle[((o - 3) % Len(CategoryCycle)) + 1]

\* a == b of Python: lists compare by contents, Cells by identity
PyEq(a, b) ==
    \/ a = b
    \/ (a \in PlainObjs /\ b \in PlainObjs)

(* ------------------------------ IDRange ------------------------------- *)

\* IDRange.__init__
IDRange(start, end) ==
    [kind |-> "IDRange", start |-> start, end |-> end,
     state |-> start, map |-> <<>>]

\* the exception IDRange.assign_id raises for obj, "" when it raises none
IDRange_assign_excMutNoDup(r, obj) ==
    IF r.state > r.end THEN "RangeExhaustedError" ELSE ""
IDRange_assign_exc(r, obj) ==
    IF r.state > r.end THEN "RangeExhaustedError"
    ELSE IF \E k \in DOMAIN r.map : PyEq(r.map[k], obj) THEN "ValueError"
    ELSE ""

\* self._map[self._state] = obj
DictSet(m, key, val) ==
    [k \in (DOMAIN m) \cup {key} |-> IF k = key THEN val ELSE m[k]]

\* IDRange.assign_id: the range after the call
IDRange_assign_idMutGap(r, obj) ==
    IF IDRange_assign_exc(r, obj) # "" THEN r
    ELSE [r EXCEPT !.map = DictSet(r.map, r.state + 1, obj), !.state = @ + 2]
IDRange_assign_idMutBurn(r, obj) ==
    IF IDRange_assign_exc(r, obj) = "ValueError"
    THEN [r EXCEPT !.state = @ + 1]
    ELSE IF IDRange_assign_exc(r, obj) # "" THEN r
    ELSE [r EXCEPT !.map = DictSet(r.map, r.state, obj), !.state = @ + 1]
IDRange_assign_id(r, obj) ==
    IF IDRange_assign_exc(r, obj) # "" THEN r
    ELSE [r EXCEPT !.map = DictSet(r.map, r.state, obj), !.state = @ + 1]

\* smallest element of a non-empty set of integers (a dict iterates its keys
\* in insertion order, and the keys are inserted in increasing order)
FirstKey(S) == CHOOSE k \in S : \A j \in S : k <= j

\* IDRange.get_id: lookup by identity
IDRange_get_idMutByValue(r, obj) ==
    LET hits == {k \in DOMAIN r.map : PyEq(r.map[k], obj)}
    IN IF hits = {} THEN None ELSE FirstKey(hits)
IDRange_get_id(r, obj) ==
    LET hits == {k \in DOMAIN r.map : r.map[k] = obj}
    IN IF hits = {} THEN None ELSE FirstKey(hits)

\* IDRange.get_object
IDRange_get_object(r, object_id) ==
    IF object_id \in DOMAIN r.map THEN r.map[object_id] ELSE None

(* ---------------- DefaultIDRangeDispatcher, CompoundIDRange ------------ *)

\* DefaultIDRangeDispatcher.__init__ without arguments
DefaultIDRangeDispatcherMutOverlap ==
    [standard_range |-> IDRange(1, 29999999),
     solid_adjacent_range |-> IDRange(30000000, 39999999),
     solid_range |-> IDRange(30000000, 49999999)]
DefaultIDRangeDispatcher ==
    [standard_range |-> IDRange(1, 29999999),
     solid_adjacent_range |-> IDRange(30000000, 39999999),
     solid_range |-> IDRange(40000000, 49999999)]

\* DefaultIDRangeDispatcher.dispatch: the name of the sub-range a category
\* goes to, or the exception raised
dispatchMutSwapped(category) ==
    IF category = "no_attribute" THEN "AttributeError"
    ELSE IF category = "nbody" \/ category = "normal" THEN "standard_range"
    ELSE IF category = "solid" THEN "solid_adjacent_range"
    ELSE IF category = "solid_adjacent" THEN "solid_range"
    ELSE "ValueError"
dispatch(category) ==
    IF category = "no_attribute" THEN "AttributeError"
    ELSE IF category = "nbody" \/ category = "normal" THEN "standard_range"
    ELSE IF category = "solid" THEN "solid_range"
    ELSE IF category = "solid_adjacent" THEN "solid_adjacent_range"
    ELSE "ValueError"

DispatchErrors == {"AttributeError", "ValueError"}

\* DefaultIDRangeDispatcher.components, in the order they are yielded
components == <<"standard_range", "solid_range", "solid_adjacent_range">>

\* CompoundIDRange.__init__
CompoundIDRange(dispatcher) ==
    [kind |-> "CompoundIDRange", dispatcher |-> dispatcher]

\* the exception CompoundIDRange.assign_id raises for obj, "" for none
Compound_assign_exc(c, obj) ==
    LET target == dispatch(CategoryOf(obj))
    IN IF target \in DispatchErrors THEN target
       ELSE IDRange_assign_exc(c.dispatcher[target], obj)

\* CompoundIDRange.assign_id: the compound range after the call
Compound_assign_id(c, obj) ==
    LET target == dispatch(CategoryOf(obj))
    IN IF target \in DispatchErrors THEN c
       ELSE [c EXCEPT !.dispatcher[target] = IDRange_assign_id(@, obj)]

\* first result that is not None when probing the components from index i
RECURSIVE ProbeId(_, _, _)
ProbeId(c, obj, i) ==
    IF i > Len(components) THEN None
    ELSE LET the_id == IDRange_get_id(c.dispatcher[components[i]], obj)
         IN IF the_id # None THEN the_id ELSE ProbeId(c, obj, i + 1)

\* CompoundIDRange.get_id
Compound_get_id(c, obj) == ProbeId(c, obj, 1)

RECURSIVE ProbeObject(_, _, _)
ProbeObject(c, object_id, i) ==
    IF i > Len(components) THEN None
    ELSE LET obj == IDRange_get_object(c.dispatcher[components[i]], object_id)
         IN IF obj # None THEN obj ELSE ProbeObject(c, object_id, i + 1)

\* CompoundIDRange.get_object
Compound_get_object(c, object_id) == ProbeObject(c, object_id, 1)

(* ---------- the calls, on whichever kind of range is at hand ----------- *)

assign_exc(r, obj) ==
    IF r.kind = "IDRange" THEN IDRange_assign_exc(r, obj)
    ELSE Compound_assign_exc(r, obj)

assign_id(r, obj) ==
    IF r.kind = "IDRange" THEN IDRange_assign_id(r, obj)
    ELSE Compound_assign_id(r, obj)

get_id(r, obj) ==
    IF r.kind = "IDRange" THEN IDRange_get_id(r, obj)
    ELSE Compound_get_id(r, obj)

get_object(r, object_id) ==
    IF r.kind = "IDRange" THEN IDRange_get_object(r, object_id)
    ELSE Compound_get_object(r, object_id)

\* the IDRange objects a range consists of
SubRanges(r) ==
    IF r.kind = "IDRange" THEN {r}
    ELSE {r.dispatcher[components[i]] : i \in 1..Len(components)}

\* the (identifier, object) pairs a range holds
Held(r) == UNION {{<<k, s.map[k]>> : k \in DOMAIN s.map} : s \in SubRanges(r)}

(* ------------------------- cells and struct --------------------------- *)

\* Cell.position, Cell.velocity, Cell.density, Cell.internal_energy: the
\* values a cell was created with, told apart by the cell's identity
position(c) == <<c, c + 1, 0>>
velocity(c) == <<0, c, c>>
density(c) == 10 + c
internal_energy(c) == 20 + c
\* Cell.ident: __init__ stores the keyword argument, which no caller passes,
\* and no statement of jelly assigns the field afterwards
ident(c) == None

\* get_type_of_cell: exc is the exception raised, ret the type returned
get_type_of_cellMutNbodyGas(cell) ==
    IF CategoryOf(cell) \in {"normal", "solid", "solid_adjacent", "nbody"}
    THEN [exc |-> "", ret |-> 0]
    ELSE [exc |-> "ValueError", ret |-> None]
get_type_of_cellMutLenient(cell) ==
    IF CategoryOf(cell) = "nbody" THEN [exc |-> "", ret |-> 4]
    ELSE [exc |-> "", ret |-> 0]
get_type_of_cell(cell) ==
    IF CategoryOf(cell) \in {"normal", "solid", "solid_adjacent"}
    THEN [exc |-> "", ret |-> 0]
    ELSE IF CategoryOf(cell) = "nbody" THEN [exc |-> "", ret |-> 4]
    ELSE IF CategoryOf(cell) = "no_attribute"
    THEN [exc |-> "AttributeError", ret |-> None]
    ELSE [exc |-> "ValueError", ret |-> None]

\* the first exception a call raises while running over a sequence of
\* results, "" when none does
RECURSIVE FirstExc(_, _)
FirstExc(results, i) ==
    IF i > Len(results) THEN ""
    ELSE IF results[i].exc # "" THEN results[i].exc
    ELSE FirstExc(results, i + 1)

Front(s) == SubSeq(s, 1, Len(s) - 1)
Last(s) == s[Len(s)]

\* sorted(cells, key=get_type_of_cell) is stable: a cell goes behind every
\* cell whose key is not larger
RECURSIVE InsertByType(_, _)
InsertByType(s, cell) ==
    IF s = <<>> THEN <<cell>>
    ELSE IF get_type_of_cell(Last(s)).ret <= get_type_of_cell(cell).ret
    THEN Append(s, cell)
    ELSE Append(InsertByType(Front(s), cell), Last(s))

RECURSIVE SortCells(_)
SortCells(s) ==
    IF s = <<>> THEN <<>> ELSE InsertByType(SortCells(Front(s)), Last(s))

\* sorted(cells, key=get_type_of_cell)
sortedMutNoSort(cells) ==
    LET keyexc == FirstExc([i \in 1..Len(cells) |-> get_type_of_cell(cells[i])], 1)
    IN IF keyexc # "" THEN [exc |-> keyexc, ret |-> <<>>]
       ELSE [exc |-> "", ret |-> cells]
sorted(cells) ==
    LET keyexc == FirstExc([i \in 1..Len(cells) |-> get_type_of_cell(cells[i])], 1)
    IN IF keyexc # "" THEN [exc |-> keyexc, ret |-> <<>>]
       ELSE [exc |-> "", ret |-> SortCells(cells)]

\* the loop of assign_ids: id_range.assign_id(cell) for the cells from i on
RECURSIVE AssignFrom(_, _, _)
AssignFrom(cells, r, i) ==
    IF i > Len(cells) THEN [exc |-> "", ret |-> r]
    ELSE IF assign_exc(r, cells[i]) # ""
    THEN [exc |-> assign_exc(r, cells[i]), ret |-> assign_id(r, cells[i])]
    ELSE AssignFrom(cells, assign_id(r, cells[i]), i + 1)

\* assign_ids(cells, id_range): the id_range argument is overwritten by a
\* new default range in the first statement
assign_idsMutSwallow(cells, id_range_arg) ==
    [exc |-> "",
     ret |-> AssignFrom(cells, CompoundIDRange(DefaultIDRangeDispatcher), 1).ret]
assign_ids(cells, id_range_arg) ==
    AssignFrom(cells, CompoundIDRange(DefaultIDRangeDispatcher), 1)

\* iterate_ids: map(id_range.get_id, cells)
iterate_idsMutByValue(cells, r) ==
    SortSeq([i \in 1..Len(cells) |-> get_id(r, cells[i])], LAMBDA a, b : a < b)
iterate_ids(cells, r) == [i \in 1..Len(cells) |-> get_id(r, cells[i])]

\* count_types: ntypes[t] is kept at index t + 1
RECURSIVE CountFrom(_, _, _)
CountFrom(cells, ntypes, i) ==
    IF i > Len(cells) THEN ntypes
    ELSE LET t == get_type_of_cell(cells[i]).ret
         IN CountFrom(cells, [ntypes EXCEPT ![t + 1] = @ + 1], i + 1)

count_types(cells) == CountFrom(cells, <<0, 0, 0, 0, 0, 0>>, 1)

\* map_quantity(cells, attribute)
map_quantity(cells, attribute) ==
    [i \in 1..Len(cells) |->
        IF attribute = "position" THEN position(cells[i])
        ELSE IF attribute = "velocity" THEN velocity(cells[i])
        ELSE IF attribute = "density" THEN density(cells[i])
        ELSE internal_energy(cells[i])]

\* A byte string is a sequence of fields [c, v]: c is the struct format
\* character the value v was packed with; "x" is a run of v zero bytes.
\* struct.calcsize of a field:
FieldWidth(f) ==
    IF f.c = "x" THEN f.v
    ELSE IF f.c = "d" \/ f.c = "L" THEN 8
    ELSE 4

\* len(raw)
RECURSIVE ByteLen(_)
ByteLen(raw) ==
    IF raw = <<>> THEN 0 ELSE ByteLen(Front(raw)) + FieldWidth(Last(raw))

\* struct.pack(fmt, *values) raises struct.error when the number of values
\* differs from the number of format characters, or when "I" is given None
\* or a negative number
pack_exc(fmt, values) ==
    IF Len(values) # Len(fmt) THEN "struct.error"
    ELSE IF \E i \in 1..Len(fmt) : fmt[i] = "I" /\ values[i] < 0
    THEN "struct.error"
    ELSE ""

\* struct.pack(fmt, *values)
pack(fmt, values) == [i \in 1..Len(fmt) |-> [c |-> fmt[i], v |-> values[i]]]

\* make_f77_block(raw_block, pad): "if pad:" takes the padded branch for
\* every pad but None and 0
make_f77_blockMutSizeField(raw_block, pad) ==
    LET size == ByteLen(raw_block)
    IN IF pad # None /\ pad < size /\ pad # 0
       THEN [exc |-> "ValueError", ret |-> <<>>]
       ELSE [exc |-> "",
             ret |-> <<[c |-> "i", v |-> size]>> \o raw_block
                     \o (IF pad # None /\ pad - size > 0
                         THEN <<[c |-> "x", v |-> pad - size]>>
                         ELSE <<>>)
                     \o <<[c |-> "i", v |-> size]>>]
make_f77_block(raw_block, pad) ==
    LET size == ByteLen(raw_block)
    IN IF pad # None /\ pad # 0
       THEN IF pad < size
            THEN [exc |-> "ValueError", ret |-> <<>>]
            ELSE [exc |-> "",
                  ret |-> <<[c |-> "i", v |-> pad]>> \o raw_block
                          \o (IF pad - size > 0
                              THEN <<[c |-> "x", v |-> pad - size]>>
                              ELSE <<>>)
                          \o <<[c |-> "i", v |-> pad]>>]
       ELSE [exc |-> "",
             ret |-> <<[c |-> "i", v |-> size]>> \o raw_block
                     \o <<[c |-> "i", v |-> size]>>]

\* one datum of make_body as the argument list of struct.pack
Datum(fmt, datum) == IF Len(fmt) = 1 THEN <<datum>> ELSE datum

RECURSIVE BodyFrom(_, _, _)
BodyFrom(fmt, data, i) ==
    IF i > Len(data) THEN <<>>
    ELSE pack(fmt, Datum(fmt, data[i])) \o BodyFrom(fmt, data, i + 1)

\* make_body(fmt, data)
make_body(fmt, data) ==
    LET packexc ==
            FirstExc([i \in 1..Len(data) |->
                         [exc |-> pack_exc(fmt, Datum(fmt, data[i]))]], 1)
    IN IF packexc # "" THEN [exc |-> packexc, ret |-> <<>>]
       ELSE make_f77_block(BodyFrom(fmt, data, 1), None)

\* the two 32-bit words of struct.pack('L', i), from two 16-bit halves each
Half == 65536
LowerWord(i) == (i % Half) + Half * ((i \div Half) % Half)
HigherWord(i) == (i \div Half) \div Half

\* the fields of a header, each with the name of the parameter it carries
Named(name, fields) ==
    [i \in 1..Len(fields) |-> [c |-> fields[i].c, v |-> fields[i].v, n |-> name]]

Rep(c, n) == [i \in 1..n |-> c]

\* make_header
make_header(n_part, mass_arr, time, redshift, flag_sfr, flag_feedback, n_all, flag_cooling, num_files, box_size, omega0, omega_lambda, hubble_parameter, flag_stellarage, flag_metals, flag_entropy_instead_u, flag_doubleprecision, flag_lpt_ics, lpt_scalingfactor, flag_tracer_field, composition_vector_length) ==
    LET n_all_binary_lower ==
            [i \in 1..Len(n_all) |-> [c |-> "I", v |-> LowerWord(n_all[i])]]
        n_all_binary_higher ==
            [i \in 1..Len(n_all) |-> [c |-> "I", v |-> HigherWord(n_all[i])]]
        inner ==
            Named("n_part", pack(Rep("i", 6), n_part))
            \o Named("mass_arr", pack(Rep("d", 6), mass_arr))
            \o Named("time", pack(<<"d">>, <<time>>))
            \o Named("redshift", pack(<<"d">>, <<redshift>>))
            \o Named("flag_sfr", pack(<<"i">>, <<flag_sfr>>))
            \o Named("flag_feedback", pack(<<"i">>, <<flag_feedback>>))
            \o Named("n_all_lower", n_all_binary_lower)
            \o Named("flag_cooling", pack(<<"i">>, <<flag_cooling>>))
            \o Named("num_files", pack(<<"i">>, <<num_files>>))
            \o Named("box_size", pack(<<"d">>, <<box_size>>))
            \o Named("omega0", pack(<<"d">>, <<omega0>>))
            \o Named("omega_lambda", pack(<<"d">>, <<omega_lambda>>))
            \o Named("hubble_parameter", pack(<<"d">>, <<hubble_parameter>>))
            \o Named("flag_stellarage", pack(<<"i">>, <<flag_stellarage>>))
            \o Named("flag_metals", pack(<<"i">>, <<flag_metals>>))
            \o Named("n_all_higher", n_all_binary_higher)
            \o Named("flag_entropy_instead_u",
                     pack(<<"i">>, <<flag_entropy_instead_u>>))
            \o Named("flag_doubleprecision",
                     pack(<<"i">>, <<flag_doubleprecision>>))
            \o Named("flag_lpt_ics", pack(<<"i">>, <<flag_lpt_ics>>))
            \o Named("lpt_scalingfactor", pack(<<"f">>, <<lpt_scalingfactor>>))
            \o Named("flag_tracer_field", pack(<<"i">>, <<flag_tracer_field>>))
            \o Named("composition_vector_length",
                     pack(<<"i">>, <<composition_vector_length>>))
    IN IF Len(n_part) # 6 \/ Len(mass_arr) # 6
       THEN [exc |-> "struct.error", ret |-> <<>>]
       ELSE make_f77_block(inner, 256)

\* make_default_header(n_types, time, flag_doubleprecision=...): the other
\* parameters at their defaults
make_default_header(n_types, time, flag_doubleprecision) ==
    make_header(n_types, <<0, 0, 0, 0, 0, 0>>, time, 0, 0, 0, n_types,
                0, 1, 1, 1, 0, 70, 0, 0, 0, flag_doubleprecision, 0, 1, 0, 0)

\* the values of the header fields that carry the parameter `name`
HeaderField(block, name) ==
    LET idx == {i \in 1..Len(block) : "n" \in DOMAIN block[i] /\ block[i].n = name}
    IN [j \in 1..Cardinality(idx) |->
          block[CHOOSE i \in idx : Cardinality({h \in idx : h < i}) = j - 1].v]

(* ------------------------------- state -------------------------------- *)

VARIABLES
    id_range,   \* the IDRange or CompoundIDRange the caller holds
    last,       \* the last call: its name, argument, exception and result
    pc,         \* the statement write_icfile is at, "idle" outside a call
    arg,        \* the arguments of the write_icfile call
    loc,        \* the local variables of write_icfile
    sink        \* file_like: the blocks written so far, one per write()

vars == <<id_range, last, pc, arg, loc, sink>>

NoCall == [op |-> "none", arg |-> None, exc |-> "", ret |-> None]

NoArg == [cells |-> <<>>, has_range |-> FALSE, boxsize |-> 1, double |-> FALSE]

NoLoc ==
    [cells |-> <<>>, id_range |-> CompoundIDRange(DefaultIDRangeDispatcher),
     ntypes |-> <<0, 0, 0, 0, 0, 0>>]

\* the identifiers a lookup is tried with
ProbeIds ==
    (0..(MaxEnd + 1)) \cup {1 + i : i \in 0..2}
    \cup {30000000 + i : i \in 0..1} \cup {40000000 + i : i \in 0..1}

\* id_range.assign_id(obj)
Assign(obj) ==
    /\ pc = "idle"
    /\ last' = [op |-> "assign_id", arg |-> obj,
                exc |-> assign_exc(id_range, obj), ret |-> None]
    /\ id_range' = assign_id(id_range, obj)
    /\ UNCHANGED <<pc, arg, loc, sink>>

\* id_range.get_id(obj)
GetId(obj) ==
    /\ pc = "idle"
    /\ last' = [op |-> "get_id", arg |-> obj, exc |-> "",
                ret |-> get_id(id_range, obj)]
    /\ UNCHANGED <<id_range, pc, arg, loc, sink>>

\* id_range.get_object(object_id)
GetObject(object_id) ==
    /\ pc = "idle"
    /\ last' = [op |-> "get_object", arg |-> object_id, exc |-> "",
                ret |-> get_object(id_range, object_id)]
    /\ UNCHANGED <<id_range, pc, arg, loc, sink>>

(* ---------------------- the ID assignment engine ----------------------- *)

\* a test constructs a stand-alone IDRange or a default compound range
InitIds ==
    /\ id_range \in
          {IDRange(s, e) : s \in 0..MaxStart, e \in 0..MaxEnd}
          \cup {CompoundIDRange(DefaultIDRangeDispatcher)}
    /\ last = NoCall
    /\ pc = "idle"
    /\ arg = NoArg
    /\ loc = NoLoc
    /\ sink = <<>>

NextIds ==
    \/ \E obj \in AllObjs : Assign(obj)
    \/ \E obj \in AllObjs : GetId(obj)
    \/ \E object_id \in ProbeIds : GetObject(object_id)

SpecIds == InitIds /\ [][NextIds]_vars

(* ---------------------------- write_icfile ----------------------------- *)

\* the cell lists a caller passes
CellLists == UNION {[1..n -> Cells] : n \in 0..MaxLen}

\* the boxsize arguments a caller passes
BoxSizes == {1, 2}

\* the caller holds a default compound range and may have assigned cells
InitWrite ==
    /\ id_range = CompoundIDRange(DefaultIDRangeDispatcher)
    /\ last = NoCall
    /\ pc = "idle"
    /\ arg = NoArg
    /\ loc = NoLoc
    /\ sink = <<>>

\* write_icfile, from its call to the statement before the first write():
\* sorted(), assign_ids() if no id_range was given, count_types().
\* A caller that passes no id_range holds none.
CallWriteMutAssigns(cells, has_range, boxsize, double) ==
    LET srt == sorted(cells)
        ids == assign_ids(srt.ret, None)
        raised == IF srt.exc # "" THEN srt.exc ELSE ids.exc
    IN /\ pc = "idle"
       /\ sink = <<>>
       /\ has_range \/ Held(id_range) = {}
       /\ arg' = [cells |-> cells, has_range |-> has_range,
                  boxsize |-> boxsize, double |-> double]
       /\ last' = [op |-> "write_icfile", arg |-> None, exc |-> raised,
                   ret |-> None]
       /\ IF raised # ""
          THEN pc' = "raised" /\ loc' = NoLoc
          ELSE /\ pc' = "header"
               /\ loc' = [cells |-> srt.ret, id_range |-> ids.ret,
                          ntypes |-> count_types(srt.ret)]
       /\ UNCHANGED <<id_range, sink>>
CallWrite(cells, has_range, boxsize, double) ==
    LET srt == sorted(cells)
        ids == IF ~has_range THEN assign_ids(srt.ret, None)
               ELSE [exc |-> "", ret |-> id_range]
        raised == IF srt.exc # "" THEN srt.exc ELSE ids.exc
    IN /\ pc = "idle"
       /\ sink = <<>>
       /\ has_range \/ Held(id_range) = {}
       /\ arg' = [cells |-> cells, has_range |-> has_range,
                  boxsize |-> boxsize, double |-> double]
       /\ last' = [op |-> "write_icfile", arg |-> None, exc |-> raised,
                   ret |-> None]
       /\ IF raised # ""
          THEN pc' = "raised" /\ loc' = NoLoc
          ELSE /\ pc' = "header"
               /\ loc' = [cells |-> srt.ret, id_range |-> ids.ret,
                          ntypes |-> count_types(srt.ret)]
       /\ UNCHANGED <<id_range, sink>>

\* file_like.write(block) at statement `at`, then on to statement `to`; the
\* exception of building the block ends the call before the write
EmitMutPartial(at, to, block) ==
    /\ pc = at
    /\ IF block.exc # ""
       THEN /\ pc' = "raised"
            /\ last' = [last EXCEPT !.exc = block.exc]
            /\ sink' = Append(sink, <<[c |-> "i", v |-> 0]>>)
       ELSE /\ pc' = to
            /\ sink' = Append(sink, block.ret)
            /\ UNCHANGED last
    /\ UNCHANGED <<id_range, arg, loc>>
Emit(at, to, block) ==
    /\ pc = at
    /\ IF block.exc # ""
       THEN /\ pc' = "raised"
            /\ last' = [last EXCEPT !.exc = block.exc]
            /\ UNCHANGED sink
       ELSE /\ pc' = to
            /\ sink' = Append(sink, block.ret)
            /\ UNCHANGED last
    /\ UNCHANGED <<id_range, arg, loc>>

fvec == IF arg.double THEN <<"d", "d", "d">> ELSE <<"f", "f", "f">>
fscalMutSingle == <<"f">>
fscal == IF arg.double THEN <<"d">> ELSE <<"f">>

\* cells[:ntypes[0]]
GasCellsMutNbodyCount == SubSeq(loc.cells, 1, loc.ntypes[5])
GasCells == SubSeq(loc.cells, 1, loc.ntypes[1])

WriteHeader ==
    Emit("header", "positions",
         make_default_header(loc.ntypes, arg.boxsize,
                             IF arg.double THEN 1 ELSE 0))

WritePositions ==
    Emit("positions", "velocities",
         make_body(fvec, map_quantity(loc.cells, "position")))

WriteVelocities ==
    Emit("velocities", "ids",
         make_body(fvec, map_quantity(loc.cells, "velocity")))

WriteIds ==
    Emit("ids", "densities",
         make_body(<<"I">>, iterate_ids(loc.cells, loc.id_range)))

WriteDensities ==
    Emit("densities", "internal_energies",
         make_body(fscal, map_quantity(loc.cells, "density")))

WriteInternalEnergiesMutSkipEmpty ==
    IF GasCells = <<>>
    THEN /\ pc = "internal_energies"
         /\ pc' = "gas_densities"
         /\ UNCHANGED <<id_range, last, arg, loc, sink>>
    ELSE Emit("internal_energies", "gas_densities",
              make_body(fscal, map_quantity(GasCells, "internal_energy")))
WriteInternalEnergies ==
    Emit("internal_energies", "gas_densities",
         make_body(fscal, map_quantity(GasCells, "internal_energy")))

WriteGasDensities ==
    Emit("gas_densities", "done",
         make_body(fscal, map_quantity(GasCells, "density")))

NextWrite ==
    \/ \E obj \in Cells : Assign(obj)
    \/ /\ pc = "idle"
       /\ \E cells \in CellLists, has_range \in BOOLEAN, boxsize \in BoxSizes,
             double \in BOOLEAN : CallWrite(cells, has_range, boxsize, double)
    \/ WriteHeader
    \/ WritePositions
    \/ WriteVelocities
    \/ WriteIds
    \/ WriteDensities
    \/ WriteInternalEnergies
    \/ WriteGasDensities

SpecWrite == InitWrite /\ [][NextWrite]_vars

(* ---------------------- write_icfile, call by call --------------------- *)

\* the results of building the seven blocks of write_icfile, in the order
\* they are written
BlocksOf(cells, r, ntypes, boxsize, double) ==
    LET fv == IF double THEN <<"d", "d", "d">> ELSE <<"f", "f", "f">>
        fs == IF double THEN <<"d">> ELSE <<"f">>
        gas == SubSeq(cells, 1, ntypes[1])
    IN <<make_default_header(ntypes, boxsize, IF double THEN 1 ELSE 0),
         make_body(fv, map_quantity(cells, "position")),
         make_body(fv, map_quantity(cells, "velocity")),
         make_body(<<"I">>, iterate_ids(cells, r)),
         make_body(fs, map_quantity(cells, "density")),
         make_body(fs, map_quantity(gas, "internal_energy")),
         make_body(fs, map_quantity(gas, "density"))>>

\* number of blocks written before the first one whose building raises
RECURSIVE WrittenBefore(_, _)
WrittenBefore(blocks, i) ==
    IF i > Len(blocks) \/ blocks[i].exc # "" THEN i - 1
    ELSE WrittenBefore(blocks, i + 1)

\* a whole call write_icfile(file_like, cells, id_range, boxsize, double):
\* the exception it ends with, the blocks it wrote to file_like, and its
\* local variables; has_range tells "not id_range" is false, r is id_range
write_icfile(cells, has_range, r, boxsize, double) ==
    LET srt == sorted(cells)
        ids == IF ~has_range THEN assign_ids(srt.ret, None)
               ELSE [exc |-> "", ret |-> r]
        ntypes == count_types(srt.ret)
        blocks == BlocksOf(srt.ret, ids.ret, ntypes, boxsize, double)
        n == WrittenBefore(blocks, 1)
    IN IF srt.exc # "" \/ ids.exc # ""
       THEN [exc |-> IF srt.exc # "" THEN srt.exc ELSE ids.exc, ret |-> <<>>,
             cells |-> <<>>,
             id_range |-> CompoundIDRange(DefaultIDRangeDispatcher),
             ntypes |-> <<0, 0, 0, 0, 0, 0>>]
       ELSE [exc |-> FirstExc(blocks, 1),
             ret |-> [k \in 1..n |-> blocks[k].ret],
             cells |-> srt.ret, id_range |-> ids.ret, ntypes |-> ntypes]

\* s[Len(s)], ..., s[1]
Reverse(s) == [i \in 1..Len(s) |-> s[Len(s) + 1 - i]]

\* the cell lists of the further writes of a process that wrote `cells`
AgainLists(cells) ==
    {cells, Reverse(cells), <<>>} \cup {<<c>> : c \in Cells}

\* the first write of the process: write_icfile(f, cells) without id_range
FirstWrite ==
    /\ pc = "first"
    /\ \E out \in {write_icfile(arg.cells, FALSE, id_range, arg.boxsize, arg.double)} :
          /\ sink' = out.ret
          /\ last' = [op |-> "write_icfile",
                      arg |-> [cells |-> arg.cells, has_range |-> FALSE],
                      exc |-> out.exc, ret |-> out.ret]
          /\ loc' = [cells |-> out.cells, id_range |-> out.id_range,
                     ntypes |-> out.ntypes]
          /\ pc' = "written"
          /\ UNCHANGED <<id_range, arg>>

\* a further write_icfile(f2, cells) without id_range, to another file
WriteAgainMutShared(cells) ==
    /\ pc = "written"
    /\ \E out \in {IF \E i \in 1..Len(cells) :
                         cells[i] \in {loc.cells[j] : j \in 1..Len(loc.cells)}
                    THEN [exc |-> "ValueError", ret |-> <<>>, cells |-> <<>>,
                          id_range |-> loc.id_range,
                          ntypes |-> <<0, 0, 0, 0, 0, 0>>]
                    ELSE write_icfile(cells, FALSE, id_range, arg.boxsize,
                                      arg.double)} :
          /\ last' = [op |-> "write_icfile",
                      arg |-> [cells |-> cells, has_range |-> FALSE],
                      exc |-> out.exc, ret |-> out.ret]
          /\ loc' = [cells |-> out.cells, id_range |-> out.id_range,
                     ntypes |-> out.ntypes]
          /\ UNCHANGED <<id_range, pc, arg, sink>>
WriteAgain(cells) ==
    /\ pc = "written"
    /\ \E out \in {write_icfile(cells, FALSE, id_range, arg.boxsize, arg.double)} :
          /\ last' = [op |-> "write_icfile",
                      arg |-> [cells |-> cells, has_range |-> FALSE],
                      exc |-> out.exc, ret |-> out.ret]
          /\ loc' = [cells |-> out.cells, id_range |-> out.id_range,
                     ntypes |-> out.ntypes]
          /\ UNCHANGED <<id_range, pc, arg, sink>>

\* the caller's ids = assign_ids(cells), on the list in its own order
CallerAssignsMutReversed ==
    LET ids == assign_ids(Reverse(arg.cells), None)
    IN /\ pc = "written"
       /\ last' = [op |-> "assign_ids",
                   arg |-> [cells |-> arg.cells, has_range |-> FALSE],
                   exc |-> ids.exc, ret |-> <<>>]
       /\ IF ids.exc # ""
          THEN pc' = "raised" /\ UNCHANGED id_range
          ELSE pc' = "assigned" /\ id_range' = ids.ret
       /\ UNCHANGED <<arg, loc, sink>>
CallerAssigns ==
    LET ids == assign_ids(arg.cells, None)
    IN /\ pc = "written"
       /\ last' = [op |-> "assign_ids",
                   arg |-> [cells |-> arg.cells, has_range |-> FALSE],
                   exc |-> ids.exc, ret |-> <<>>]
       /\ IF ids.exc # ""
          THEN pc' = "raised" /\ UNCHANGED id_range
          ELSE pc' = "assigned" /\ id_range' = ids.ret
       /\ UNCHANGED <<arg, loc, sink>>

\* write_icfile(f2, cells, ids) with the caller's range, to another file
WriteWithIds ==
    /\ pc = "assigned"
    /\ \E out \in {write_icfile(arg.cells, TRUE, id_range, arg.boxsize, arg.double)} :
          /\ last' = [op |-> "write_icfile",
                      arg |-> [cells |-> arg.cells, has_range |-> TRUE],
                      exc |-> out.exc, ret |-> out.ret]
          /\ loc' = [cells |-> out.cells, id_range |-> out.id_range,
                     ntypes |-> out.ntypes]
          /\ pc' = "end"
          /\ UNCHANGED <<id_range, arg, sink>>

\* out = assign_ids(cells, id_range=ids) with the range the caller holds;
\* the range returned is kept in loc.id_range
AssignIdsOverride(cells) ==
    LET out == assign_ids(cells, id_range)
    IN /\ pc = "assigned"
       /\ last' = [op |-> "assign_ids",
                   arg |-> [cells |-> cells, has_range |-> TRUE],
                   exc |-> out.exc, ret |-> <<>>]
       /\ loc' = [cells |-> cells, id_range |-> out.ret,
                  ntypes |-> <<0, 0, 0, 0, 0, 0>>]
       /\ pc' = "end"
       /\ UNCHANGED <<id_range, arg, sink>>

\* a test holds a cell list and is about to write it
InitFiles ==
    /\ id_range = CompoundIDRange(DefaultIDRangeDispatcher)
    /\ last = NoCall
    /\ loc = NoLoc
    /\ sink = <<>>
    /\ pc = "first"
    /\ arg \in [cells : CellLists, has_range : {FALSE}, boxsize : BoxSizes,
                double : BOOLEAN]

NextFiles ==
    \/ FirstWrite
    \/ \E cells \in AgainLists(arg.cells) : WriteAgain(cells)
    \/ CallerAssigns
    \/ WriteWithIds
    \/ \E cells \in AgainLists(arg.cells) : AssignIdsOverride(cells)

SpecFiles == InitFiles /\ [][NextFiles]_vars

(* --------------------------- block builders ---------------------------- *)

\* the packed values a raw block is made of
RawFields == {[c |-> ch, v |-> x] : ch \in {"i", "d"}, x \in {0, 7}}

\* the raw blocks a caller passes
RawBlocks == UNION {[1..n -> RawFields] : n \in 0..MaxFields}

\* the pad arguments a caller passes: none, or a size
Pads == {None} \cup (0..MaxPad)

\* the particle counts a caller passes to make_header; the last one is too
\* short for the format 'iiiiii'
HeaderCounts ==
    {<<0, 0, 0, 0, 0, 0>>, <<1, 0, 0, 0, 1, 0>>,
     <<100, 200, 300, 400, 500, 600>>, <<1, 2, 3>>}

\* a call of make_f77_block with the arguments at hand
MakeF77Block ==
    LET block == make_f77_block(arg.raw_block, arg.pad)
    IN /\ pc = "make_f77_block"
       /\ last' = [op |-> "make_f77_block", arg |-> arg,
                   exc |-> block.exc, ret |-> block.ret]
       /\ pc' = "idle"
       /\ UNCHANGED <<id_range, arg, loc, sink>>

\* a call of make_header with the arguments at hand, the parameters not
\* drawn as in test_make_header
MakeHeader ==
    LET block == make_header(arg.n_part, <<0, 0, 0, 0, 0, 0>>, arg.time, 50,
                             1, 1, arg.n_all, 1, 1, arg.box_size, 123, 412,
                             70, 1, 1, 1, arg.flag_doubleprecision, 1, 1, 1, 1)
    IN /\ pc = "make_header"
       /\ last' = [op |-> "make_header", arg |-> arg,
                   exc |-> block.exc, ret |-> block.ret]
       /\ pc' = "idle"
       /\ UNCHANGED <<id_range, arg, loc, sink>>

\* a test is about to call one of the two builders
InitBlocks ==
    /\ id_range = CompoundIDRange(DefaultIDRangeDispatcher)
    /\ last = NoCall
    /\ loc = NoLoc
    /\ sink = <<>>
    /\ \/ /\ pc = "make_f77_block"
          /\ arg \in [raw_block : RawBlocks, pad : Pads]
       \/ /\ pc = "make_header"
          /\ arg \in [n_part : HeaderCounts, n_all : HeaderCounts,
                      time : 0..1, box_size : BoxSizes,
                      flag_doubleprecision : 0..1]

NextBlocks ==
    \/ MakeF77Block
    \/ MakeHeader

SpecBlocks == InitBlocks /\ [][NextBlocks]_vars

(* -------------------------------- meshes ------------------------------- *)

\* Cell(position, velocity, density, internal_energy, category) as a gas
\* creates it: velocity, density and internal energy are what `gas` gives at
\* the position
create_cell(gas, pos, category) ==
    [position |-> pos, category |-> category, gas |-> gas]

\* the positions a grid yields
Points == 1..NumPoints

\* the grids a caller passes, as the sequence of positions they yield
Grids == UNION {[1..n -> Points] : n \in 0..MaxGrid}

\* the obstacles a caller can build: the positions inside() is true for, the
\* positions `fluids` and `solids` yield, and the cells an obstacle of
\* pyrepo yields when iterated
ObstacleKinds ==
    {[inside |-> {1}, fluids |-> <<11>>, solids |-> <<12>>,
      iter |-> <<>>],
     [inside |-> {1, 2}, fluids |-> <<21, 22>>, solids |-> <<23>>,
      iter |-> <<create_cell("obstacle", 23, "solid")>>],
     [inside |-> {}, fluids |-> <<>>, solids |-> <<31, 32>>,
      iter |-> <<create_cell("obstacle", 31, "solid"),
                 create_cell("obstacle", 32, "solid")>>]}

ObstacleLists == UNION {[1..n -> ObstacleKinds] : n \in 0..MaxObstacles}

\* the extra cell collections a caller can pass, as lists of nbody cells
ExtraKinds ==
    {<<create_cell("none", 41, "nbody")>>,
     <<create_cell("none", 42, "nbody"), create_cell("none", 43, "nbody")>>}

ExtraLists == UNION {[1..n -> ExtraKinds] : n \in 0..MaxExtras}

\* obstacle.inside(position)
inside(obstacle, pos) == pos \in obstacle.inside

\* any(obstacle.inside(grid_point) for obstacle in obstacles), from the i-th
\* obstacle on
RECURSIVE any_inside(_, _, _)
any_insideMutFirstOnly(obstacles, grid_point, i) ==
    i <= Len(obstacles) /\ i = 1 /\ inside(obstacles[i], grid_point)
any_inside(obstacles, grid_point, i) ==
    IF i > Len(obstacles) THEN FALSE
    ELSE IF inside(obstacles[i], grid_point) THEN TRUE
    ELSE any_inside(obstacles, grid_point, i + 1)

\* the loop of approximate_gas from the i-th grid point on; `obstacles` is
\* the empty list when the caller passed None
RECURSIVE ApproxFrom(_, _, _, _)
ApproxFrom(gas, grid, obstacles, i) ==
    IF i > Len(grid) THEN <<>>
    ELSE LET valid == IF obstacles # <<>>
                      THEN ~any_inside(obstacles, grid[i], 1)
                      ELSE TRUE
         IN (IF valid THEN <<create_cell(gas, grid[i], "normal")>> ELSE <<>>)
            \o ApproxFrom(gas, grid, obstacles, i + 1)

\* list(approximate_gas(gas, grid, obstacles))
approximate_gas(gas, grid, obstacles) == ApproxFrom(gas, grid, obstacles, 1)

\* make_obstacle_cells(obstacle, background_gas): the tuple (fluids, solids)
make_obstacle_cellsMutSolidsFirst(obstacle, background_gas) ==
    <<[i \in 1..Len(obstacle.solids) |->
          create_cell("uniform", obstacle.solids[i], "solid")],
      [i \in 1..Len(obstacle.fluids) |->
          create_cell(background_gas, obstacle.fluids[i], "solid_adjacent")]>>
make_obstacle_cells(obstacle, background_gas) ==
    <<[i \in 1..Len(obstacle.fluids) |->
          create_cell(background_gas, obstacle.fluids[i], "solid_adjacent")],
      [i \in 1..Len(obstacle.solids) |->
          create_cell("uniform", obstacle.solids[i], "solid")]>>

\* list(chain(*lists)), from the i-th list on
RECURSIVE Chain(_, _)
Chain(lists, i) ==
    IF i > Len(lists) THEN <<>> ELSE lists[i] \o Chain(lists, i + 1)

\* make_mesh(gas, grid, obstacles, extras); None is passed as the empty list,
\* which `obstacles or []`, `extras or []` and `if obstacles:` treat alike
make_mesh(gas, grid, obstacles, extras) ==
    approximate_gas(gas, grid, obstacles)
    \o Chain([i \in 1..Len(obstacles) |->
                 Chain(make_obstacle_cells(obstacles[i], gas), 1)], 1)
    \o Chain(extras, 1)

\* Mesh.__outside_obstacles(cell) of pyrepo, from the i-th obstacle on
RECURSIVE Mesh_outside_obstacles(_, _, _)
Mesh_outside_obstacles(obstacles, cell, i) ==
    IF i > Len(obstacles) THEN TRUE
    ELSE IF inside(obstacles[i], cell.position) THEN FALSE
    ELSE Mesh_outside_obstacles(obstacles, cell, i + 1)

\* list(Mesh(gas, obstacles, extras).cells) of pyrepo; gas is the primary
\* source of cells
Mesh_cells(gas, obstacles, extras) ==
    SelectSeq(gas, LAMBDA cell : Mesh_outside_obstacles(obstacles, cell, 1))
    \o Chain([i \in 1..Len(obstacles) |-> obstacles[i].iter], 1)
    \o Chain(extras, 1)

\* a call of list(approximate_gas(gas, grid, obstacles))
ApproximateGas ==
    /\ pc = "approximate_gas"
    /\ last' = [op |-> "approximate_gas", arg |-> arg, exc |-> "",
                ret |-> approximate_gas(arg.gas, arg.grid, arg.obstacles)]
    /\ pc' = "idle"
    /\ UNCHANGED <<id_range, arg, loc, sink>>

\* a call of make_mesh(gas, grid, obstacles, extras)
MakeMesh ==
    /\ pc = "make_mesh"
    /\ last' = [op |-> "make_mesh", arg |-> arg, exc |-> "",
                ret |-> make_mesh(arg.gas, arg.grid, arg.obstacles, arg.extras)]
    /\ pc' = "idle"
    /\ UNCHANGED <<id_range, arg, loc, sink>>

\* a call of list(Mesh(cells, obstacles, extras).cells), the primary source
\* being the cells of the gas at the grid points
MeshCells ==
    /\ pc = "Mesh.cells"
    /\ last' = [op |-> "Mesh.cells", arg |-> arg, exc |-> "",
                ret |-> Mesh_cells(
                           [i \in 1..Len(arg.grid) |->
                               create_cell(arg.gas, arg.grid[i], "normal")],
                           arg.obstacles, arg.extras)]
    /\ pc' = "idle"
    /\ UNCHANGED <<id_range, arg, loc, sink>>

\* a caller is about to build a mesh
InitMesh ==
    /\ id_range = CompoundIDRange(DefaultIDRangeDispatcher)
    /\ last = NoCall
    /\ loc = NoLoc
    /\ sink = <<>>
    /\ pc \in {"approximate_gas", "make_mesh", "Mesh.cells"}
    /\ arg \in [gas : {"background"}, grid : Grids,
                obstacles : ObstacleLists, extras : ExtraLists]

NextMesh ==
    \/ ApproximateGas
    \/ MakeMesh
    \/ MeshCells

SpecMesh == InitMesh /\ [][NextMesh]_vars

(* -------------------------- CircularObstacle --------------------------- *)

\* pi, as the fraction PiNum / PiDen
PiNum == 355
PiDen == 113

\* Lengths are counted in units of 1 / (PiDen * n_phi), in which
\* self.radius * self.__angle_segment = radius * 2 * pi / n_phi is the
\* integer radius * 2 * PiNum.  A position is held in polar form about the
\* obstacle's centre: the signed radial factor r of __circle_position and
\* the running index k that fixes the angle.
Radii == {0, 1, 2}

CircularObstacles ==
    [radius : Radii, n_phi : 1..MaxNPhi, inverted : BOOLEAN,
     layers : 1..MaxLayers]

Abs(x) == IF x < 0 THEN -x ELSE x

\* CircularObstacle.__circle_position(k, inner, layer):
\* r = radius * (1 + (layer - 0.5) * angle_segment * (-1 if inner else 1))
circle_position(self, k, inner, layer) ==
    [r |-> self.radius * (PiDen * self.n_phi
                          + (2 * layer - 1) * PiNum
                            * (IF inner THEN -1 ELSE 1)),
     k |-> k]

\* the positions the generator `fluids` yields, layer by layer
CircularObstacle_fluids(self) ==
    [i \in 1..(self.layers * self.n_phi) |->
        circle_position(self, (i - 1) % self.n_phi, self.inverted,
                        ((i - 1) \div self.n_phi) + 1)]

\* the positions the generator `solids` yields, layer by layer
CircularObstacle_solids(self) ==
    [i \in 1..(self.layers * self.n_phi) |->
        circle_position(self, (i - 1) % self.n_phi, ~self.inverted,
                        ((i - 1) \div self.n_phi) + 1)]

\* CircularObstacle.inside(position): dist is the distance to the centre,
\* which for r * (sin(phi), cos(phi)) is |r|
CircularObstacle_inside(self, pos) ==
    LET dist == Abs(pos.r)
        r_max == self.radius * (PiDen * self.n_phi
                                + (2 * self.layers + 1) * PiNum
                                  * (IF self.inverted THEN -1 ELSE 1))
    IN IF self.inverted THEN dist > r_max ELSE dist < r_max

\* the caller takes the next position of one of the two generators
NextPosition(which, positions) ==
    /\ pc = which
    /\ Len(sink) < Len(positions)
    /\ sink' = Append(sink, positions[Len(sink) + 1])
    /\ UNCHANGED <<id_range, last, pc, arg, loc>>

\* the caller asks the obstacle whether a position it was given is inside
Inside(i) ==
    /\ pc \in {"fluids", "solids"}
    /\ i \in 1..Len(sink)
    /\ last' = [op |-> pc, arg |-> sink[i], exc |-> "",
                ret |-> CircularObstacle_inside(arg, sink[i])]
    /\ UNCHANGED <<id_range, pc, arg, loc, sink>>

InitCircle ==
    /\ id_range = CompoundIDRange(DefaultIDRangeDispatcher)
    /\ last = NoCall
    /\ loc = NoLoc
    /\ sink = <<>>
    /\ pc \in {"fluids", "solids"}
    /\ arg \in CircularObstacles

NextCircle ==
    \/ NextPosition("fluids", CircularObstacle_fluids(arg))
    \/ NextPosition("solids", CircularObstacle_solids(arg))
    \/ \E i \in 1..(MaxNPhi * MaxLayers) : Inside(i)

SpecCircle == InitCircle /\ [][NextCircle]_vars

(* ------------------------------ properties ----------------------------- *)

\* the objects and the identifiers a range holds
HeldObjs(r) == {p[2] : p \in Held(r)}
HeldIds(r) == {p[1] : p \in Held(r)}

\* C1: on a single IDRange and on a compound range over the default
\* dispatcher, whatever assign_id calls were made, no identifier is held by
\* two distinct objects and no object holds two identifiers.
C1_Uniqueness ==
    /\ \A p \in Held(id_range), q \in Held(id_range) :
          /\ p[1] = q[1] => p[2] = q[2]
          /\ p[2] = q[2] => p[1] = q[1]
    /\ \A s \in SubRanges(id_range), t \in SubRanges(id_range) :
          s # t => (DOMAIN s.map) \cap (DOMAIN t.map) = {}

\* a compound range holding three cells in two sub-ranges after a call that
\* raised
C1_Witness ==
    /\ id_range.kind = "CompoundIDRange"
    /\ Cardinality(Held(id_range)) >= 3
    /\ id_range.dispatcher.solid_range.map # <<>>
    /\ last.op = "assign_id"
    /\ last.exc = "ValueError"

\* C2 (as claimed): no range that can be constructed ever maps an object to
\* identifier 0, and write_icfile writes no identifier 0.
C2_NeverZero ==
    /\ 0 \notin HeldIds(id_range)
    /\ Len(sink) >= 4 => \A i \in 2..(Len(sink[4]) - 1) : sink[4][i].v # 0

C4_Capacity ==
    [][(id_range.kind = "IDRange" /\ last'.op = "assign_id") =>
          LET n == Cardinality(DOMAIN id_range.map)
              capacity == id_range.end - id_range.start + 1
          IN /\ (n < capacity /\ last'.arg \notin HeldObjs(id_range)) =>
                   (last'.exc = "" /\ last'.arg \in HeldObjs(id_range'))
             /\ n >= capacity =>
                   (last'.exc = "RangeExhaustedError" /\ id_range' = id_range)
      ]_vars

\* C5: assign_id on an IDRange that is not exhausted, with an object that
\* already holds an ID in it, raises ValueError and gives the object no
\* second ID.
C5_Duplicate ==
    [][(/\ id_range.kind = "IDRange"
        /\ last'.op = "assign_id"
        /\ id_range.state <= id_range.end
        /\ last'.arg \in HeldObjs(id_range)) =>
          (last'.exc = "ValueError" /\ id_range' = id_range)]_vars

\* an IDRange with a free identifier after a call that raised ValueError for
\* an object it holds
C5_Witness ==
    /\ id_range.kind = "IDRange"
    /\ last.op = "assign_id"
    /\ last.exc = "ValueError"
    /\ last.arg \in HeldObjs(id_range)
    /\ id_range.state <= id_range.end

\* C6: in an IDRange the cursor is start plus the number of successful
\* assigns, the assigned IDs are start .. cursor - 1 without a gap, the k-th
\* successful assign (k from 0) gives its object the ID start + k, and the
\* cursor never decreases.
C6_Consecutive ==
    /\ [](id_range.kind = "IDRange" =>
            /\ id_range.state =
                  id_range.start + Cardinality(DOMAIN id_range.map)
            /\ DOMAIN id_range.map = id_range.start..(id_range.state - 1))
    /\ [][id_range.kind = "IDRange" =>
            /\ id_range'.state >= id_range.state
            /\ (last'.op = "assign_id" /\ last'.exc = "") =>
                  /\ IDRange_get_id(id_range', last'.arg) =
                        id_range.start + Cardinality(DOMAIN id_range.map)
                  /\ id_range'.state = id_range.state + 1
                  /\ \A k \in DOMAIN id_range.map :
                        id_range'.map[k] = id_range.map[k]]_vars

\* an IDRange starting at 1 right after its second successful assign
C6_Witness ==
    /\ id_range.kind = "IDRange"
    /\ id_range.start = 1
    /\ Cardinality(DOMAIN id_range.map) = 2
    /\ last.op = "assign_id"
    /\ last.exc = ""
    /\ IDRange_get_id(id_range, last.arg) = 2

\* C7: on an IDRange and on a compound range, get_id(obj) = k exactly when
\* get_object(k) is obj; get_id of an object that holds no ID and get_object
\* of an ID that was not assigned return None, and no lookup raises.
C7_Lookups ==
    /\ \A obj \in AllObjs, k \in ProbeIds \cup HeldIds(id_range) :
          (get_id(id_range, obj) = k) <=> (get_object(id_range, k) = obj)
    /\ \A obj \in AllObjs \ HeldObjs(id_range) : get_id(id_range, obj) = None
    /\ \A k \in ProbeIds \ HeldIds(id_range) : get_object(id_range, k) = None
    /\ last.op = "get_id" =>
          /\ last.exc = ""
          /\ IF last.arg \in HeldObjs(id_range)
             THEN <<last.ret, last.arg>> \in Held(id_range)
             ELSE last.ret = None
    /\ last.op = "get_object" =>
          /\ last.exc = ""
          /\ IF last.arg \in HeldIds(id_range)
             THEN <<last.arg, last.ret>> \in Held(id_range)
             ELSE last.ret = None

\* get_id returned None for the list that equals a list held by the range
C7_Witness ==
    /\ id_range.kind = "IDRange"
    /\ last.op = "get_id"
    /\ last.arg \in PlainObjs
    /\ last.ret = None
    /\ HeldObjs(id_range) \cap PlainObjs # {}

\* the categories that have a particle type
ValidCategories == {"normal", "solid", "solid_adjacent", "nbody"}
GasCategories == {"normal", "solid", "solid_adjacent"}

\* C8: for a cell of an invalid category dispatch (through assign_id on the
\* compound range) and get_type_of_cell raise ValueError, and write_icfile
\* over a list with such a cell raises and writes nothing.
C8_InvalidCategory ==
    /\ \A c \in Cells : CategoryOf(c) \notin ValidCategories =>
          /\ dispatch(CategoryOf(c)) = "ValueError"
          /\ get_type_of_cell(c).exc = "ValueError"
    /\ (last.op = "assign_id" /\ CategoryOf(last.arg) \notin ValidCategories) =>
          (last.exc = "ValueError" /\ last.arg \notin HeldObjs(id_range))
    /\ (/\ last.op = "write_icfile"
        /\ \E i \in 1..Len(arg.cells) :
              CategoryOf(arg.cells[i]) \notin ValidCategories) =>
          (pc = "raised" /\ last.exc = "ValueError" /\ sink = <<>>)

\* write_icfile was given an id_range and a list of a valid cell that holds
\* an ID followed by an invalid one, and raised
C8_Witness ==
    /\ last.op = "write_icfile"
    /\ pc = "raised"
    /\ arg.has_range
    /\ Len(arg.cells) >= 2
    /\ CategoryOf(arg.cells[1]) \in ValidCategories
    /\ arg.cells[1] \in HeldObjs(id_range)
    /\ CategoryOf(arg.cells[Len(arg.cells)]) \notin ValidCategories

\* the values between the two length fields of a block
Payload(block) == [i \in 1..(Len(block) - 2) |-> block[i + 1].v]

\* the values the k-th block written by write_icfile has to carry
ExpectedPayload(k) ==
    LET n == Len(loc.cells)
        gas == SelectSeq(loc.cells, LAMBDA c : CategoryOf(c) \in GasCategories)
    IN IF k = 2 THEN [j \in 1..(3 * n) |->
                        position(loc.cells[((j - 1) \div 3) + 1])[((j - 1) % 3) + 1]]
       ELSE IF k = 3 THEN [j \in 1..(3 * n) |->
                        velocity(loc.cells[((j - 1) \div 3) + 1])[((j - 1) % 3) + 1]]
       ELSE IF k = 4 THEN [j \in 1..n |-> get_id(loc.id_range, loc.cells[j])]
       ELSE IF k = 5 THEN [j \in 1..n |-> density(loc.cells[j])]
       ELSE IF k = 6 THEN [j \in 1..Len(gas) |-> internal_energy(gas[j])]
       ELSE [j \in 1..Len(gas) |-> density(gas[j])]

\* the statements of write_icfile that write, in their order
WriteOrder ==
    <<"header", "positions", "velocities", "ids", "densities",
      "internal_energies", "gas_densities", "done">>

\* the sink holds the first blocks of the fixed order, as many as the
\* statement reached tells
SinkInOrder ==
    /\ pc = "idle" => sink = <<>>
    /\ \A k \in 1..Len(WriteOrder) : pc = WriteOrder[k] => Len(sink) = k - 1
    /\ Len(sink) <= 7
    /\ Len(sink) >= 1 =>
          /\ sink[1][1].v = 256
          /\ HeaderField(sink[1], "n_part") = loc.ntypes
    /\ \A k \in 2..Len(sink) :
          /\ Payload(sink[k]) = ExpectedPayload(k)
          /\ sink[k][1].v = ByteLen(SubSeq(sink[k], 2, Len(sink[k]) - 1))

\* C9: a successful write_icfile makes exactly seven writes: the header,
\* then positions, velocities, identifiers, densities of all cells, internal
\* energies and densities of the type-0 cells; the header comes first, a
\* write only appends one block, and the k-th block written is always the
\* k-th of that order, also for an empty list or one without type-0 cells.
C9_WriteSequence ==
    /\ []SinkInOrder
    /\ [][\/ sink' = sink
          \/ /\ Len(sink') = Len(sink) + 1
             /\ SubSeq(sink', 1, Len(sink)) = sink]_vars

\* a completed write of a list that holds cells but no type-0 cell
C9_Witness ==
    /\ pc = "done"
    /\ Len(sink) = 7
    /\ arg.cells # <<>>
    /\ \A i \in 1..Len(arg.cells) : CategoryOf(arg.cells[i]) = "nbody"
    /\ Len(sink[6]) = 2

C11_StableOrder ==
    (\E k \in 1..Len(WriteOrder) : pc = WriteOrder[k]) =>
        LET inp == arg.cells
            buf == loc.cells
            type(c) == get_type_of_cell(c).ret
        IN /\ Len(buf) = Len(inp)
           /\ \A c \in Cells :
                 Cardinality({i \in 1..Len(buf) : buf[i] = c})
                    = Cardinality({i \in 1..Len(inp) : inp[i] = c})
           /\ \A i \in 1..Len(buf), j \in 1..Len(buf) :
                 (type(buf[i]) = 0 /\ type(buf[j]) = 4) => i < j
           /\ \A t \in {0, 4} :
                 SelectSeq(buf, LAMBDA c : type(c) = t)
                    = SelectSeq(inp, LAMBDA c : type(c) = t)
           /\ Len(sink) >= 2 =>
                 \A j \in 1..Len(buf) :
                    sink[2][3 * (j - 1) + 2].v = position(buf[j])[1]

\* a completed write of an nbody cell followed by a type-0 cell, which the
\* buffer holds in the opposite order
C11_Witness ==
    /\ pc = "done"
    /\ Len(arg.cells) = 2
    /\ get_type_of_cell(arg.cells[1]).ret = 4
    /\ get_type_of_cell(arg.cells[2]).ret = 0
    /\ loc.cells = <<arg.cells[2], arg.cells[1]>>
    /\ sink[2][2].v = position(arg.cells[2])[1]

\* C12: the first count[0] entries of the sorted buffer are exactly its
\* type-0 cells, in buffer order, and every entry behind them is an nbody
\* cell; the internal-energy block and the second density block carry one
\* value for each type-0 cell of the input, in input order, and none for an
\* nbody cell.
C12_GasBlocks ==
    (\E k \in 1..Len(WriteOrder) : pc = WriteOrder[k]) =>
        LET type(c) == get_type_of_cell(c).ret
            n0 == loc.ntypes[1]
            gas_in == SelectSeq(arg.cells, LAMBDA c : type(c) = 0)
        IN /\ n0 = Len(gas_in)
           /\ SubSeq(loc.cells, 1, n0) = gas_in
           /\ \A i \in 1..Len(loc.cells) : (type(loc.cells[i]) = 0) <=> (i <= n0)
           /\ Len(sink) >= 6 =>
                 /\ Payload(sink[6]) = [j \in 1..n0 |-> internal_energy(gas_in[j])]
                 /\ \A i \in 1..Len(arg.cells) :
                       CategoryOf(arg.cells[i]) = "nbody" =>
                          \A j \in 1..Len(Payload(sink[6])) :
                             Payload(sink[6])[j] # internal_energy(arg.cells[i])
           /\ Len(sink) >= 7 =>
                 Payload(sink[7]) = [j \in 1..n0 |-> density(gas_in[j])]

\* a completed double-precision write of an nbody cell followed by a type-0
\* cell: each gas block carries the one value of the type-0 cell
C12_Witness ==
    /\ pc = "done"
    /\ arg.double
    /\ Len(arg.cells) = 2
    /\ CategoryOf(arg.cells[1]) = "nbody"
    /\ CategoryOf(arg.cells[2]) \in GasCategories
    /\ Payload(sink[6]) = <<internal_energy(arg.cells[2])>>
    /\ Payload(sink[7]) = <<density(arg.cells[2])>>

\* C13: without a pad make_f77_block returns the length of the raw block, the
\* raw block unchanged and the same length again; with a pad p that is not
\* below that length it returns p, the raw block, p - length zero bytes and p
\* again, p + 8 bytes in all; a header block is 264 bytes long and both its
\* length fields are 256.
C13_Framing ==
    /\ last.op = "make_f77_block" =>
          LET raw == last.arg.raw_block
              p == last.arg.pad
              size == ByteLen(raw)
              n == Len(raw)
              block == last.ret
          IN /\ p = None =>
                   /\ last.exc = ""
                   /\ block = <<[c |-> "i", v |-> size]>> \o raw
                                 \o <<[c |-> "i", v |-> size]>>
                   /\ ByteLen(block) = size + 8
             /\ (p # None /\ p >= size) =>
                   /\ last.exc = ""
                   /\ block[1] = [c |-> "i", v |-> p]
                   /\ SubSeq(block, 2, n + 1) = raw
                   /\ \A i \in (n + 2)..(Len(block) - 1) : block[i].c = "x"
                   /\ ByteLen(SubSeq(block, n + 2, Len(block) - 1)) = p - size
                   /\ block[Len(block)] = [c |-> "i", v |-> p]
                   /\ ByteLen(block) = p + 8
    /\ (last.op = "make_header" /\ last.exc = "") =>
          /\ ByteLen(last.ret) = 264
          /\ last.ret[1].v = 256
          /\ last.ret[1].c = "i"
          /\ last.ret[Len(last.ret)] = last.ret[1]

\* a raw block of 8 bytes was framed with a pad of 9: one zero byte follows
\* the raw block
C13_Witness ==
    /\ last.op = "make_f77_block"
    /\ last.arg.pad = 9
    /\ ByteLen(last.arg.raw_block) = 8
    /\ last.exc = ""
    /\ last.ret[Len(last.ret) - 1] = [c |-> "x", v |-> 1]
    /\ ByteLen(last.ret) = 17

\* C14 (as claimed): whenever make_f77_block is given a pad size smaller than
\* the length of the raw block it raises ValueError and returns no block.
C14_PadTooSmall ==
    (/\ last.op = "make_f77_block"
     /\ last.arg.pad # None
     /\ ByteLen(last.arg.raw_block) > last.arg.pad) =>
        (last.exc = "ValueError" /\ last.ret = <<>>)

\* C15 (as claimed): the box_size field of the header write_icfile writes
\* carries the boxsize argument of the call.
C15_BoxSize ==
    (last.op = "write_icfile" /\ Len(sink) >= 1) =>
        HeaderField(sink[1], "box_size") = <<arg.boxsize>>

\* C16 (as claimed): the time field and the redshift field of the header
\* write_icfile writes are 0 in every write.
C16_TimeZero ==
    (last.op = "write_icfile" /\ Len(sink) >= 1) =>
        /\ HeaderField(sink[1], "time") = <<0>>
        /\ HeaderField(sink[1], "redshift") = <<0>>

\* the bytes between the two length fields of a block
Body(block) == SubSeq(block, 2, Len(block) - 1)

C18_FailBeforeWrite ==
    (last.op = "write_icfile" /\ ~arg.has_range) =>
        LET cells == arg.cells
            invalid == \E i \in 1..Len(cells) :
                          CategoryOf(cells[i]) \notin ValidCategories
            duplicate == \E i \in 1..Len(cells), j \in 1..Len(cells) :
                            i # j /\ PyEq(cells[i], cells[j])
        IN /\ (invalid \/ duplicate) =>
                 /\ pc = "raised"
                 /\ last.exc = "ValueError"
                 /\ sink = <<>>
                 /\ loc = NoLoc
           /\ pc = "raised" =>
                 /\ sink = <<>>
                 /\ last.exc \in {"ValueError", "RangeExhaustedError"}
           /\ last.exc # "" => sink = <<>>

\* write_icfile without an id_range was given the same valid cell twice and
\* raised on the second assignment
C18_Witness ==
    /\ last.op = "write_icfile"
    /\ ~arg.has_range
    /\ Len(arg.cells) = 2
    /\ arg.cells[1] = arg.cells[2]
    /\ CategoryOf(arg.cells[1]) \in ValidCategories
    /\ pc = "raised"
    /\ last.exc = "ValueError"
    /\ sink = <<>>

\* C19: a grid point is left out of the primary cells of a mesh exactly when
\* inside() of at least one obstacle is true for it; without obstacles every
\* grid point gives a cell; the obstacle list in the opposite order gives
\* the same primary cells.
C19_ObstacleFilter ==
    last.op \in {"approximate_gas", "make_mesh", "Mesh.cells"} =>
        LET grid == last.arg.grid
            obstacles == last.arg.obstacles
            excluded(p) == \E i \in 1..Len(obstacles) : p \in obstacles[i].inside
            kept == SelectSeq(grid, LAMBDA p : ~excluded(p))
            primary == SelectSeq(last.ret, LAMBDA c : c.category = "normal")
            reversed == [i \in 1..Len(obstacles) |->
                            obstacles[Len(obstacles) + 1 - i]]
        IN /\ [j \in 1..Len(primary) |-> primary[j].position] = kept
           /\ SubSeq(last.ret, 1, Len(kept)) = primary
           /\ \A j \in 1..Len(grid) :
                 (\E k \in 1..Len(primary) : primary[k].position = grid[j])
                    <=> ~excluded(grid[j])
           /\ obstacles = <<>> => Len(primary) = Len(grid)
           /\ approximate_gas(last.arg.gas, grid, reversed) = primary
           /\ \A j \in 1..Len(grid) :
                 Mesh_outside_obstacles(reversed, [position |-> grid[j]], 1)
                    <=> ~excluded(grid[j])

\* approximate_gas over two grid points and two obstacles: the first point is
\* inside the second obstacle only and is left out, the other point is kept
C19_Witness ==
    /\ last.op = "approximate_gas"
    /\ Len(last.arg.obstacles) = 2
    /\ Len(last.arg.grid) = 2
    /\ last.arg.grid[1] \notin last.arg.obstacles[1].inside
    /\ last.arg.grid[1] \in last.arg.obstacles[2].inside
    /\ last.ret = <<create_cell("background", last.arg.grid[2], "normal")>>

\* f[1] + ... + f[n]
RECURSIVE SumTo(_, _)
SumTo(f, n) == IF n = 0 THEN 0 ELSE SumTo(f, n - 1) + f[n]

\* C20: the cells make_mesh returns are the kept primary cells in grid
\* order, then for each obstacle in list order its fluid (solid_adjacent)
\* cells followed by its solid cells, then the cells of each extra in list
\* order; every one of them is there once, at its place, and nothing else.
C20_Composition ==
    last.op = "make_mesh" =>
        LET grid == last.arg.grid
            obstacles == last.arg.obstacles
            extras == last.arg.extras
            mesh == last.ret
            excluded(p) == \E i \in 1..Len(obstacles) : p \in obstacles[i].inside
            kept == SelectSeq(grid, LAMBDA p : ~excluded(p))
            nobst == [k \in 1..Len(obstacles) |->
                         Len(obstacles[k].fluids) + Len(obstacles[k].solids)]
            nextra == [k \in 1..Len(extras) |-> Len(extras[k])]
            obase(k) == Len(kept) + SumTo(nobst, k - 1)
            ebase(k) == Len(kept) + SumTo(nobst, Len(obstacles))
                           + SumTo(nextra, k - 1)
        IN /\ Len(mesh) = Len(kept) + SumTo(nobst, Len(obstacles))
                             + SumTo(nextra, Len(extras))
           /\ \A j \in 1..Len(kept) :
                 mesh[j] = create_cell(last.arg.gas, kept[j], "normal")
           /\ \A k \in 1..Len(obstacles) :
                 /\ \A j \in 1..Len(obstacles[k].fluids) :
                       mesh[obase(k) + j] =
                          create_cell(last.arg.gas, obstacles[k].fluids[j],
                                      "solid_adjacent")
                 /\ \A j \in 1..Len(obstacles[k].solids) :
                       mesh[obase(k) + Len(obstacles[k].fluids) + j] =
                          create_cell("uniform", obstacles[k].solids[j], "solid")
           /\ \A k \in 1..Len(extras) : \A j \in 1..Len(extras[k]) :
                 mesh[ebase(k) + j] = extras[k][j]

\* make_mesh with a grid point left out, two different obstacles that both
\* have cells, and two different extras
C20_Witness ==
    /\ last.op = "make_mesh"
    /\ Len(last.arg.grid) = 2
    /\ Len(last.arg.obstacles) = 2
    /\ last.arg.obstacles[1].fluids # <<>>
    /\ last.arg.obstacles[2].solids # <<>>
    /\ last.arg.obstacles[1] # last.arg.obstacles[2]
    /\ Len(last.arg.extras) = 2
    /\ last.arg.extras[1] # last.arg.extras[2]
    /\ Len(last.ret) = 1 + 5 + 3
    /\ last.ret[1].category = "normal"
    /\ last.ret[2].category = "solid_adjacent"
    /\ last.ret[Len(last.ret)] = last.arg.extras[2][Len(last.arg.extras[2])]

\* a cell list the caller can assign IDs to: valid categories, no cell twice
Assignable(cells) ==
    /\ \A i \in 1..Len(cells) : CategoryOf(cells[i]) \in ValidCategories
    /\ \A i \in 1..Len(cells), j \in 1..Len(cells) :
          i # j => ~PyEq(cells[i], cells[j])

\* C21 (as claimed): for any cell list, write_icfile with the range the
\* caller got from assign_ids(cells) writes the same blocks as write_icfile
\* without id_range.
C21_SameFile ==
    (pc = "end" /\ last.op = "write_icfile" /\ last.arg.has_range) =>
        (last.exc = "" /\ last.ret = sink)

\* C21 (amended): the two writes give the same blocks for every cell list in
\* which no nbody cell comes before a normal cell.
C21_SameFileSorted ==
    (/\ pc = "end"
     /\ last.op = "write_icfile"
     /\ last.arg.has_range
     /\ ~\E i \in 1..Len(arg.cells), j \in 1..Len(arg.cells) :
            i < j /\ CategoryOf(arg.cells[i]) = "nbody"
                  /\ CategoryOf(arg.cells[j]) = "normal") =>
        (last.exc = "" /\ Len(last.ret) = 7 /\ last.ret = sink)

\* both writes of a solid cell followed by an nbody cell are complete
C21_Witness ==
    /\ pc = "end"
    /\ last.arg.has_range
    /\ Len(arg.cells) = 2
    /\ CategoryOf(arg.cells[1]) = "solid"
    /\ CategoryOf(arg.cells[2]) = "nbody"
    /\ Len(sink) = 7
    /\ Payload(last.ret[4]) = <<40000000, 1>>

\* C22 (as claimed): assign_ids(cells, id_range=R) returns R: the range
\* returned is the caller's, it still holds every ID the caller's range held,
\* and when the call raises nothing every cell of the list has an ID in it.
C22_Override ==
    (pc = "end" /\ last.op = "assign_ids" /\ last.arg.has_range) =>
        /\ Held(id_range) \subseteq Held(loc.id_range)
        /\ last.exc = "" =>
              /\ loc.id_range = id_range
              /\ \A i \in 1..Len(last.arg.cells) :
                    last.arg.cells[i] \in HeldObjs(id_range)

\* C23: in a completed write the i-th entries of the positions, velocities,
\* identifiers and all-cell densities blocks belong to the i-th cell of the
\* type-sorted buffer; the i-th identifier is the ID the range in use holds
\* for that cell, whatever the order of the ID values.
C23_Alignment ==
    (last.op = "write_icfile" /\ Len(last.ret) = 7) =>
        LET out == last.ret
            inp == last.arg.cells
            buf == SelectSeq(inp, LAMBDA c : get_type_of_cell(c).ret = 0)
                   \o SelectSeq(inp, LAMBDA c : get_type_of_cell(c).ret = 4)
            r == IF last.arg.has_range THEN id_range ELSE loc.id_range
        IN /\ Len(Body(out[2])) = 3 * Len(buf)
           /\ Len(Body(out[3])) = 3 * Len(buf)
           /\ Len(Body(out[4])) = Len(buf)
           /\ Len(Body(out[5])) = Len(buf)
           /\ \A i \in 1..Len(buf) :
                 /\ \A d \in 1..3 :
                       /\ Body(out[2])[3 * (i - 1) + d].v = position(buf[i])[d]
                       /\ Body(out[3])[3 * (i - 1) + d].v = velocity(buf[i])[d]
                 /\ Body(out[4])[i].v = get_id(r, buf[i])
                 /\ get_object(r, Body(out[4])[i].v) = buf[i]
                 /\ Body(out[5])[i].v = density(buf[i])

\* a completed write with the caller's range whose identifier block is not
\* in increasing order
C23_Witness ==
    /\ last.op = "write_icfile"
    /\ last.arg.has_range
    /\ Len(last.ret) = 7
    /\ Payload(last.ret[4]) = <<2, 1>>
    /\ get_id(id_range, last.arg.cells[1]) = 1

\* C24 (as claimed): assign_id on an IDRange raises ValueError only for an
\* object the range itself holds; an object that merely equals a held one is
\* given an ID of its own.
C24_ByIdentity ==
    (/\ id_range.kind = "IDRange"
     /\ last.op = "assign_id"
     /\ last.exc = "ValueError") =>
        last.arg \in HeldObjs(id_range)

\* a block is whole: two equal length fields around as many bytes
Complete(block) ==
    /\ Len(block) >= 2
    /\ block[1] = block[Len(block)]
    /\ block[1].c = "i"
    /\ block[1].v = ByteLen(Body(block))

\* the sink holds whole blocks only, and a write that raised while building
\* one of its blocks has written exactly the blocks before that one
WholeBlocks ==
    /\ \A k \in 1..Len(sink) : Complete(sink[k])
    /\ (pc = "raised" /\ last.exc = "struct.error") =>
          /\ Len(sink) >= 1
          /\ Len(sink) <= 6
          /\ BlocksOf(loc.cells, loc.id_range, loc.ntypes, arg.boxsize,
                      arg.double)[Len(sink) + 1].exc = "struct.error"
          /\ \A k \in 1..Len(sink) :
                sink[k] = BlocksOf(loc.cells, loc.id_range, loc.ntypes,
                                   arg.boxsize, arg.double)[k].ret

\* C25: when write_icfile raises while building body block k, the sink holds
\* the header and the k-1 body blocks written before, each whole; the step
\* that raises writes nothing and removes nothing.
C25_NoRollback ==
    /\ []WholeBlocks
    /\ [][(pc' = "raised" /\ pc \notin {"idle", "raised"}) =>
             /\ sink' = sink
             /\ \E k \in 1..Len(WriteOrder) :
                   pc = WriteOrder[k] /\ Len(sink) = k - 1]_vars

\* write_icfile was given a range that holds no ID for a cell of the list
\* and raised at the identifier block, after the header and two body blocks
C25_Witness ==
    /\ pc = "raised"
    /\ last.exc = "struct.error"
    /\ arg.has_range
    /\ Len(sink) = 3
    /\ \E i \in 1..Len(arg.cells) : arg.cells[i] \notin HeldObjs(id_range)
    /\ Complete(sink[3])

\* C26 (as claimed): no position that `fluids` of a CircularObstacle yields
\* lies inside the obstacle's own inside() predicate.
C26_FluidsOutside ==
    (last.op = "fluids") => ~last.ret

\* C27 (as claimed): after a successful ID assignment for a cell, the cell's
\* own ident field equals the ID the range reports for it.
C27_IdentPopulated ==
    (/\ last.op = "assign_id"
     /\ last.exc = ""
     /\ last.arg \in Cells) =>
        ident(last.arg) = get_id(id_range, last.arg)

\* C28: an assign_id that raises leaves the range as it was: the cursor and
\* the map of an IDRange, and every sub-range of a CompoundIDRange (a
\* dispatch failure included).
C28_FailedAssignFrame ==
    [][(last'.op = "assign_id" /\ last'.exc # "") =>
          id_range' = id_range]_vars

\* a compound range that holds objects has just refused a duplicate
C28_Witness ==
    /\ id_range.kind = "CompoundIDRange"
    /\ last.op = "assign_id"
    /\ last.exc = "ValueError"
    /\ last.arg \in HeldObjs(id_range)
    /\ Cardinality(HeldObjs(id_range)) >= 2

\* while write_icfile runs with the caller's range, it works on that very
\* range, and the identifier block holds the IDs the caller assigned
CallerIdsWritten ==
    (arg.has_range /\ pc \notin {"idle", "raised"}) =>
        /\ loc.id_range = id_range
        /\ Len(sink) >= 4 =>
              /\ Len(Body(sink[4])) = Len(loc.cells)
              /\ \A i \in 1..Len(loc.cells) :
                    /\ Body(sink[4])[i].v \in HeldIds(id_range)
                    /\ Body(sink[4])[i].v = get_id(id_range, loc.cells[i])

\* C29: write_icfile given an id_range assigns no ID: no step of the call,
\* whether it ends in success or in an exception, changes the range, and
\* every identifier written is one the caller had assigned.
C29_RangeOnlyRead ==
    /\ []CallerIdsWritten
    /\ [][(pc' # "idle" /\ arg'.has_range) => id_range' = id_range]_vars

\* a write of two cells with the caller's range has written all its blocks
C29_Witness ==
    /\ arg.has_range
    /\ pc = "done"
    /\ Len(sink) = 7
    /\ Len(loc.cells) = 2
    /\ HeldObjs(id_range) = {loc.cells[1], loc.cells[2]}
    /\ Body(sink[4])[1].v > Body(sink[4])[2].v

====
